---- MODULE Spec2Model ----
(***************************************************************************)
(* Model of src/parameter_scraping/px4_scraper.py: PX4ParameterParser.     *)
(*                                                                         *)
(* parse_all runs three stages in sequence over one repository tree:       *)
(* parse_xml_file on the injected-parameters document, parse_source_file   *)
(* on every source file the walk yields, and save_parameters.              *)
(*                                                                         *)
(* Text is modelled at the level the code's patterns see it.  A string is  *)
(* a sequence of tokens; the token SP is one space character and every     *)
(* other token is a run of non-space characters.  A path is a sequence of  *)
(* segments and a segment is a sequence of chunks ("re","build").  Python  *)
(* None is the empty tuple and a present optional value x is <<x>>.        *)
(* Floats are held in tenths (float("2.5") is 25).                         *)
(***************************************************************************)
EXTENDS Integers, Sequences, FiniteSets, TLC

VARIABLES env, pc, parameters, xml_todo, ext_i, yielded, src_path, lines,
          line_number, in_comment, current_comment, log, calls, output

vars == <<env, pc, parameters, xml_todo, ext_i, yielded, src_path, lines,
          line_number, in_comment, current_comment, log, calls, output>>

-----------------------------------------------------------------------------
(* Python values *)

None == <<>>

Some(x) == <<x>>

EmptyDict == [k \in {} |-> <<>>]

\* d[k] = v of a Python dict: insert or replace the one entry under k
DictSet(d, k, v) == [x \in DOMAIN d \cup {k} |-> IF x = k THEN v ELSE d[x]]

\* d.get(k, dflt)
DictGet(d, k, dflt) == IF k \in DOMAIN d THEN d[k] ELSE dflt

SP == " "

-----------------------------------------------------------------------------
(* str.strip(chars): drop the tokens made only of characters of chars from   *)
(* both ends                                                                 *)

RECURSIVE LStrip(_, _)
LStrip(s, toks) ==
    IF s # <<>> /\ Head(s) \in toks THEN LStrip(Tail(s), toks) ELSE s

RECURSIVE RStrip(_, _)
RStrip(s, toks) ==
    IF s # <<>> /\ s[Len(s)] \in toks THEN RStrip(SubSeq(s, 1, Len(s) - 1), toks) ELSE s

Strip(s, toks) == RStrip(LStrip(s, toks), toks)

\* line.strip(): whitespace only
Whitespace == {SP}

\* line.strip('/* '): every token made only of '/', '*' and ' '
CommentDecoration == {"/**", "*/", "*", "/", "**", SP}

\* index of the first token of s that lies in toks, 0 when there is none
FirstIn(s, toks) ==
    IF \E i \in 1..Len(s) : s[i] \in toks
    THEN CHOOSE i \in 1..Len(s) : s[i] \in toks /\ \A j \in 1..(i - 1) : s[j] \notin toks
    ELSE 0

-----------------------------------------------------------------------------
(* The compiled patterns of __init__, as the tokens each one matches *)

\* re_comment_start = /\*\*
re_comment_start(line) == \E i \in 1..Len(line) : line[i] = "/**"

\* '*/' in line
HasCommentEnd(line) == \E i \in 1..Len(line) : line[i] = "*/"

\* re_param_define: the three groups (type, name, default) of each token it
\* matches.  The secondary form PX4_PARAM_DEFINE_T(NAME); has no comma and
\* default and is not matched by it.
MacroA == "PARAM_DEFINE_INT32(A,1);"

MacroB == "PARAM_DEFINE_FLOAT(B,2.5);"

MacroSecondary == "PX4_PARAM_DEFINE_INT32(A);"

ParamDefineGroups ==
    (MacroA :> [type |-> "INT32", name |-> "A", default |-> "1"]) @@
    (MacroB :> [type |-> "FLOAT", name |-> "B", default |-> "2.5"])

\* re_param_define.search(line): None, or the groups of the leftmost match
re_param_define(line) ==
    LET i == FirstIn(line, DOMAIN ParamDefineGroups)
    IN  IF i = 0 THEN None ELSE Some(ParamDefineGroups[line[i]])

\* re_comment_tag = @([a-zA-Z][a-zA-Z0-9_]*)\s*(.*) : the tag name of each
\* token it matches
CommentTags ==
    ("@min" :> "min") @@ ("@max" :> "max") @@ ("@group" :> "group") @@
    ("@unit" :> "unit") @@ ("@decimal" :> "decimal") @@
    ("@volatile" :> "volatile") @@ ("@category" :> "category") @@
    ("@value" :> "value")

\* re_comment_tag.search(line): None, or (tag, value) of the leftmost match;
\* value is the rest of the line after the whitespace that follows the tag
re_comment_tag(line) ==
    LET i == FirstIn(line, DOMAIN CommentTags)
    IN  IF i = 0 THEN None
        ELSE Some([tag   |-> CommentTags[line[i]],
                   value |-> LStrip(SubSeq(line, i + 1, Len(line)), Whitespace)])

\* float(s): the strings it accepts, in tenths
FloatLiterals == (<<"0">> :> 0) @@ (<<"10">> :> 100) @@ (<<"2.5">> :> 25) @@ (<<"2">> :> 20)

\* int(s): the strings it accepts
IntLiterals == (<<"0">> :> 0) @@ (<<"10">> :> 10) @@ (<<"2">> :> 2)

-----------------------------------------------------------------------------
(* ParameterMetadata *)

Uncategorized == <<"Uncategorized">>

Standard == <<"Standard">>

\* the dataclass constructor with its field defaults; the str-typed fields
\* short_desc and long_desc are optional values here because the XML
\* branch can store an element's text, which may be None
ParameterMetadata(name, type, default, short_desc, long_desc, group, volatile, source_file, line) ==
    [name        |-> name,
     type        |-> type,
     default     |-> default,
     short_desc  |-> short_desc,
     long_desc   |-> long_desc,
     min_val     |-> None,
     max_val     |-> None,
     unit        |-> None,
     decimal     |-> None,
     group       |-> group,
     values      |-> EmptyDict,
     volatile    |-> volatile,
     category    |-> Standard,
     source_file |-> source_file,
     line_number |-> line]

-----------------------------------------------------------------------------
(* _process_parameter_definition *)

\* the loop with the first occurrence of a tag kept instead of the last
RECURSIVE ParseCommentLinesFirstWins(_, _)
ParseCommentLinesFirstWins(comment_lines, acc) ==
    IF comment_lines = <<>> THEN acc
    ELSE LET line      == Strip(Head(comment_lines), CommentDecoration)
             tag_match == re_comment_tag(line)
             next ==
                 IF tag_match # None
                 THEN IF tag_match[1].tag \in DOMAIN acc.metadata THEN acc
                      ELSE [acc EXCEPT !.metadata =
                               DictSet(@, tag_match[1].tag, tag_match[1].value)]
                 ELSE IF acc.short_desc = <<>>
                 THEN [acc EXCEPT !.short_desc = line]
                 ELSE [acc EXCEPT !.long_desc = @ \o line \o <<SP>>]
         IN  ParseCommentLinesFirstWins(Tail(comment_lines), next)

\* the loop over comment_lines: acc is (short_desc, long_desc, metadata)
RECURSIVE ParseCommentLines(_, _)
ParseCommentLines(comment_lines, acc) ==
    IF comment_lines = <<>> THEN acc
    ELSE LET line      == Strip(Head(comment_lines), CommentDecoration)
             tag_match == re_comment_tag(line)
             next ==
                 IF tag_match # None
                 THEN [acc EXCEPT !.metadata =
                          DictSet(@, tag_match[1].tag, tag_match[1].value)]
                 ELSE IF acc.short_desc = <<>>
                 THEN [acc EXCEPT !.short_desc = line]
                 ELSE [acc EXCEPT !.long_desc = @ \o line \o <<SP>>]
         IN  ParseCommentLines(Tail(comment_lines), next)

\* whether the optional-field assignments raise: float() and int() of the
\* tag values
TagsRaise(metadata) ==
    \/ "min" \in DOMAIN metadata /\ metadata["min"] \notin DOMAIN FloatLiterals
    \/ "max" \in DOMAIN metadata /\ metadata["max"] \notin DOMAIN FloatLiterals
    \/ "decimal" \in DOMAIN metadata /\ metadata["decimal"] \notin DOMAIN IntLiterals

\* the ParameterMetadata built from a parsed comment block, once no
\* conversion raises
SourceParameter(m, c, source_file, line) ==
    LET md   == c.metadata
        base == ParameterMetadata(m.name, m.type, m.default,
                    Some(Strip(c.short_desc, Whitespace)),
                    Some(Strip(c.long_desc, Whitespace)),
                    DictGet(md, "group", Uncategorized), FALSE,
                    Some(source_file), Some(line))
    IN  [base EXCEPT
           !.min_val  = IF "min" \in DOMAIN md THEN Some(FloatLiterals[md["min"]]) ELSE @,
           !.max_val  = IF "max" \in DOMAIN md THEN Some(FloatLiterals[md["max"]]) ELSE @,
           !.unit     = IF "unit" \in DOMAIN md THEN Some(md["unit"]) ELSE @,
           !.decimal  = IF "decimal" \in DOMAIN md THEN Some(IntLiterals[md["decimal"]]) ELSE @,
           !.volatile = IF "volatile" \in DOMAIN md THEN TRUE ELSE @,
           !.category = IF "category" \in DOMAIN md THEN md["category"] ELSE @]

\* the outcome of the try block: raised, or the parameter to store under
\* param_name
ProcessParameterDefinition(m, comment_lines, source_file, line) ==
    LET c == ParseCommentLines(comment_lines,
                 [short_desc |-> <<>>, long_desc |-> <<>>, metadata |-> EmptyDict])
    IN  IF TagsRaise(c.metadata)
        THEN [raised |-> TRUE]
        ELSE [raised |-> FALSE, param |-> SourceParameter(m, c, source_file, line)]

-----------------------------------------------------------------------------
(* xml.etree.ElementTree elements *)

Element(tag, attrib, text, kids) ==
    [tag |-> tag, attrib |-> attrib, text |-> text, kids |-> kids]

\* elem.find(tag): the first direct child with that tag, or None
Find(elem, tag) ==
    LET i == IF \E k \in 1..Len(elem.kids) : elem.kids[k].tag = tag
             THEN CHOOSE k \in 1..Len(elem.kids) :
                      /\ elem.kids[k].tag = tag
                      /\ \A j \in 1..(k - 1) : elem.kids[j].tag # tag
             ELSE 0
    IN  IF i = 0 THEN None ELSE Some(elem.kids[i])

\* elem.findall(tag): the direct children with that tag, in document order
FindAll(elem, tag) == SelectSeq(elem.kids, LAMBDA k : k.tag = tag)

\* bool(found) for the result of find(): None is false, and an Element is
\* true only when it has children of its own (Element.__bool__ is
\* len(element) != 0)
Truthy(found) == found # None /\ Len(found[1].kids) > 0

\* float(elem.text) / int(elem.text) raise on None and on anything that is
\* no literal
FloatRaises(text) == text = None \/ text[1] \notin DOMAIN FloatLiterals

IntRaises(text) == text = None \/ text[1] \notin DOMAIN IntLiterals

\* the dict comprehension over values_elem.findall('value'): a later value
\* with the same code replaces the earlier one
RECURSIVE ValuesDict(_, _)
ValuesDict(value_elems, acc) ==
    IF value_elems = <<>> THEN acc
    ELSE ValuesDict(Tail(value_elems),
                    DictSet(acc, Head(value_elems).attrib["code"], Head(value_elems).text))

-----------------------------------------------------------------------------
(* _parse_parameter *)

\* the text of an optional child, or '' when the child is missing
ChildTextOrEmpty(elem, tag) ==
    IF Find(elem, tag) # None THEN Find(elem, tag)[1].text ELSE Some(<<>>)

\* whether anything after the name check raises (and is caught and logged)
ParseParameterRaises(elem) ==
    \/ Truthy(Find(elem, "min")) /\ FloatRaises(Find(elem, "min")[1].text)
    \/ Truthy(Find(elem, "max")) /\ FloatRaises(Find(elem, "max")[1].text)
    \/ Truthy(Find(elem, "decimal")) /\ IntRaises(Find(elem, "decimal")[1].text)
    \/ /\ Find(elem, "values") # None
       /\ \E v \in 1..Len(FindAll(Find(elem, "values")[1], "value")) :
              "code" \notin DOMAIN FindAll(Find(elem, "values")[1], "value")[v].attrib

XmlParameter(elem, group) ==
    LET a    == elem.attrib
        base == ParameterMetadata(a["name"], DictGet(a, "type", ""), DictGet(a, "default", ""),
                    ChildTextOrEmpty(elem, "short_desc"),
                    ChildTextOrEmpty(elem, "long_desc"),
                    group,
                    "volatile" \in DOMAIN a /\ a["volatile"] = "true",
                    None, None)
    IN  [base EXCEPT
           !.min_val = IF Truthy(Find(elem, "min"))
                       THEN Some(FloatLiterals[Find(elem, "min")[1].text[1]]) ELSE @,
           !.max_val = IF Truthy(Find(elem, "max"))
                       THEN Some(FloatLiterals[Find(elem, "max")[1].text[1]]) ELSE @,
           !.unit    = IF Truthy(Find(elem, "unit")) THEN Find(elem, "unit")[1].text ELSE @,
           !.decimal = IF Truthy(Find(elem, "decimal"))
                       THEN Some(IntLiterals[Find(elem, "decimal")[1].text[1]]) ELSE @,
           !.values  = IF Find(elem, "values") # None
                       THEN ValuesDict(FindAll(Find(elem, "values")[1], "value"), EmptyDict)
                       ELSE @]

\* the name check as "name is None": an empty name passes it
ParseParameterEmptyNamePasses(elem, group) ==
    IF "name" \notin DOMAIN elem.attrib
    THEN [metadata |-> None, error |-> FALSE]
    ELSE IF ParseParameterRaises(elem)
    THEN [metadata |-> None, error |-> TRUE]
    ELSE [metadata |-> Some(XmlParameter(elem, group)), error |-> FALSE]

\* the result: None without a log line when the name is absent or empty,
\* None with an error logged when the construction raises, else the entry
ParseParameter(elem, group) ==
    IF "name" \notin DOMAIN elem.attrib \/ elem.attrib["name"] = ""
    THEN [metadata |-> None, error |-> FALSE]
    ELSE IF ParseParameterRaises(elem)
    THEN [metadata |-> None, error |-> TRUE]
    ELSE [metadata |-> Some(XmlParameter(elem, group)), error |-> FALSE]


-----------------------------------------------------------------------------
(* Paths and the walk of parse_all *)

RepoPath == << <<"PX4-Autopilot">> >>

InjectedPath == RepoPath \o << <<"src">>, <<"lib">>, <<"parameters">>, <<"parameters_injected", ".xml">> >>

\* the extensions of the outer loop, in its order
Extensions == <<".c", ".cpp", ".h", ".hpp">>

\* str(path): the chunks of the segments, joined by "/"
RECURSIVE PathStr(_)
PathStr(path) ==
    IF path = <<>> THEN <<>>
    ELSE IF Len(path) = 1 THEN path[1]
    ELSE path[1] \o <<"/">> \o PathStr(Tail(path))

\* sub in str(path), for a sub that is one chunk
InStr(sub, path) == \E i \in 1..Len(PathStr(path)) : PathStr(path)[i] = sub

\* the files repo_path.rglob("*" + ext) yields: the name ends with ext
RGlob(files, ext) == {f \in files : f[Len(f)][Len(f[Len(f)])] = ext}

\* the test of the inner loop: 'build' not in str(src_file)
NotInBuild(src_file) == ~InStr("build", src_file)

\* src_path.relative_to(self.repo_path)
RelativeTo(path, root) == SubSeq(path, Len(root) + 1, Len(path))

-----------------------------------------------------------------------------
(* Log records and the calls parse_all makes *)

LogRecord(level, msg, about) == [level |-> level, msg |-> msg, about |-> about]

Call(fn, arg) == [fn |-> fn, arg |-> arg]

\* the nested loops of parse_xml_file as one work list of (group_name, param)
RECURSIVE GroupParams(_, _)
GroupParams(group_name, params) ==
    IF params = <<>> THEN <<>>
    ELSE << [group |-> group_name, param |-> Head(params)] >> \o GroupParams(group_name, Tail(params))

RECURSIVE XmlWork(_)
XmlWork(groups) ==
    IF groups = <<>> THEN <<>>
    ELSE GroupParams(DictGet(Head(groups).attrib, "name", Uncategorized),
                     FindAll(Head(groups), "parameter"))
         \o XmlWork(Tail(groups))

\* the dictionary save_parameters builds and writes
ParamsDict(params) ==
    [n \in DOMAIN params |->
        [name |-> params[n].name, type |-> params[n].type, default |-> params[n].default,
         short_desc |-> params[n].short_desc, long_desc |-> params[n].long_desc,
         min_val |-> params[n].min_val, max_val |-> params[n].max_val,
         unit |-> params[n].unit, decimal |-> params[n].decimal,
         group |-> params[n].group, values |-> params[n].values,
         volatile |-> params[n].volatile, category |-> params[n].category,
         source_file |-> params[n].source_file, line_number |-> params[n].line_number]]


-----------------------------------------------------------------------------
(* Inputs: the repository tree, the injected XML document, the output dir *)

MaxLines == 4

MaxTags == 2

\* source lines
LOpen == <<"/**">>

LBlank == <<SP, "*">>

LShort == <<SP, "*", SP, "Short", SP, "desc">>

LLong == <<SP, "*", SP, "Long", SP, "text">>

LShortClose == <<SP, "*", SP, "Short", SP, "*/">>

LMinOk == <<SP, "*", SP, "@min", SP, "0">>

LMinBadClose == <<SP, "*", SP, "@min", SP, "abc", SP, "*/">>

LClose == <<SP, "*/">>

LMacroA == <<MacroA>>

LMacroB == <<SP, MacroB>>

LOpenText == <<"/**", SP, "Brief">>

LOneLine == <<"/**", SP, "doc", SP, "*/">>

LOpenMacro == <<"/**", SP, "doc", SP, "*/", SP, MacroA>>

LCloseMacro == <<SP, "*/", SP, MacroA>>

LSecondary == <<MacroSecondary>>

LTag(tag, value) == <<SP, "*", SP, tag, SP>> \o value

ScanLines == {LOpen, LShortClose, LMinBadClose, LMacroA, LMacroB, LOpenMacro}

TagLines == {LShort, LLong, LBlank, LMinOk, LTag("@min", <<"10">>), LTag("@max", <<"2.5">>),
             LTag("@max", <<"abc">>), LTag("@group", <<"Test">>),
             LTag("@group", <<"Other", SP, "group">>), LTag("@unit", <<"m/s">>),
             LTag("@decimal", <<"2">>), LTag("@decimal", <<"2.5">>),
             <<SP, "*", SP, "@volatile">>, LTag("@category", <<"System">>)}

SeqsUpTo(S, n) == UNION {[1..k -> S] : k \in 0..n}

Readable(ls) == [readable |-> TRUE, lines |-> ls]

\* a file open() or read() fails on: no permission, not UTF-8, a directory
Unreadable == [readable |-> FALSE, lines |-> <<>>]

\* the tree below repo_path
SrcA == << <<"src">>, <<"a", ".c">> >>

SrcB == << <<"src">>, <<"modules">>, <<"b", ".hpp">> >>

BuildC == << <<"build">>, <<"px4">>, <<"c", ".c">> >>

RebuildD == << <<"src">>, <<"re", "build">>, <<"d", ".cpp">> >>

DocsE == << <<"docs">>, <<"e", ".md">> >>

Tree == {SrcA, SrcB, BuildC, RebuildD, DocsE}

Files(a, b) ==
    [f \in Tree |-> IF f = SrcA THEN a ELSE IF f = SrcB THEN b ELSE Readable(<<LMacroB>>)]

\* XML elements
Leaf(tag, text) == Element(tag, EmptyDict, Some(text), <<>>)

ValueElem(attrib, text) == Element("value", attrib, Some(text), <<>>)

ParamFull ==
    Element("parameter",
            [name |-> "A", type |-> "INT32", default |-> "7", volatile |-> "true"], None,
            << Leaf("short_desc", <<"Xml", SP, "desc">>), Leaf("min", <<"0">>),
               Leaf("max", <<"10">>), Leaf("unit", <<"m">>), Leaf("decimal", <<"2">>),
               Element("values", EmptyDict, None,
                       << ValueElem([code |-> "0"], <<"off">>),
                          ValueElem([code |-> "1"], <<"on">>) >>) >>)

ParamPlain == Element("parameter", [name |-> "B", volatile |-> "false"], None, <<>>)

ParamNested ==
    Element("parameter", [name |-> "B", type |-> "FLOAT"], None,
            << Element("short_desc", EmptyDict, None, <<>>),
               Element("min", EmptyDict, Some(<<"2.5">>), << Leaf("note", <<"n">>) >>) >>)

ParamNestedBad ==
    Element("parameter", [name |-> "A"], None,
            << Element("max", EmptyDict, None, << Leaf("note", <<"n">>) >>) >>)

ParamBadValues ==
    Element("parameter", [name |-> "A"], None,
            << Element("values", EmptyDict, None, << ValueElem(EmptyDict, <<"off">>) >>) >>)

ParamNoName == Element("parameter", [type |-> "INT32"], None, << Leaf("min", <<"0">>) >>)

ParamEmptyName == Element("parameter", [name |-> ""], None, <<>>)

Group(attrib, params) == Element("group", attrib, None, params)

Root(groups) == Element("parameters", EmptyDict, None, groups)

XmlOk(root) == [exists |-> TRUE, wellformed |-> TRUE, root |-> root]

XmlMissingFile == [exists |-> FALSE, wellformed |-> FALSE, root |-> Root(<<>>)]

XmlMalformed == [exists |-> TRUE, wellformed |-> FALSE, root |-> Root(<<>>)]

XmlFiles ==
    {XmlMissingFile, XmlMalformed,
     XmlOk(Root(<< Group([name |-> <<"G1">>], <<ParamFull, ParamNoName>>) >>)),
     XmlOk(Root(<< Group(EmptyDict, <<ParamNested, ParamEmptyName>>),
                   Group([name |-> <<"G2">>], <<ParamBadValues, ParamPlain>>) >>)),
     XmlOk(Root(<< Group([name |-> <<"G1">>], <<ParamPlain, ParamNestedBad, ParamFull>>) >>))}

PipelineFiles ==
    {Unreadable, Readable(<<LMacroA>>), Readable(<<LSecondary, LMacroB>>),
     Readable(<<LOpen, LMinBadClose, LMacroA>>), Readable(<<LOneLine, LMacroA, LCloseMacro>>)}

\* whole pipelines over small files
PipelineEnvs ==
    {[xml |-> x, files |-> Files(a, b), writable |-> w] :
        x \in XmlFiles, a \in PipelineFiles, b \in PipelineFiles, w \in BOOLEAN}

\* every file of up to MaxLines lines over ScanLines
ScanEnvs ==
    {[xml |-> XmlMissingFile, files |-> Files(Readable(ls), Unreadable), writable |-> TRUE] :
        ls \in SeqsUpTo(ScanLines, MaxLines) \ {<<>>}}

\* one comment block of up to MaxTags lines over TagLines, then a macro line
TagEnvs ==
    {[xml |-> XmlMalformed,
      files |-> Files(Readable(<<open>> \o body \o <<LClose, LMacroA>>), Unreadable),
      writable |-> TRUE] :
        open \in {LOpen, LOpenText}, body \in SeqsUpTo(TagLines, MaxTags)}

Envs == PipelineEnvs \cup ScanEnvs \cup TagEnvs

-----------------------------------------------------------------------------
(* __init__ *)

\* the state __init__ leaves, before parse_all
Constructed ==
    /\ pc = "start"
    /\ parameters = EmptyDict
    /\ xml_todo = <<>>
    /\ ext_i = 1
    /\ yielded = {}
    /\ src_path = <<>>
    /\ lines = <<>>
    /\ line_number = 0
    /\ in_comment = FALSE
    /\ current_comment = <<>>
    /\ log = <<>>
    /\ calls = <<>>
    /\ output = None

Init == env \in Envs /\ Constructed

InitPipeline == env \in PipelineEnvs /\ Constructed

scan_vars == <<src_path, lines, line_number, in_comment, current_comment>>

walk_vars == <<ext_i, yielded>>

-----------------------------------------------------------------------------
(* parse_all, first stage: parse_xml_file *)

\* injected_path.exists() is false
XmlMissing ==
    /\ pc = "start"
    /\ ~env.xml.exists
    /\ pc' = "scan"
    /\ UNCHANGED <<env, parameters, xml_todo, walk_vars, scan_vars, log, calls, output>>

\* ET.parse raises: caught and logged by parse_xml_file
XmlParseError ==
    /\ pc = "start"
    /\ env.xml.exists /\ ~env.xml.wellformed
    /\ calls' = Append(calls, Call("parse_xml_file", InjectedPath))
    /\ log' = Append(log, LogRecord("error", "Error parsing", InjectedPath))
    /\ pc' = "scan"
    /\ UNCHANGED <<env, parameters, xml_todo, walk_vars, scan_vars, output>>

XmlParsed ==
    /\ pc = "start"
    /\ env.xml.exists /\ env.xml.wellformed
    /\ calls' = Append(calls, Call("parse_xml_file", InjectedPath))
    /\ xml_todo' = XmlWork(FindAll(env.xml.root, "group"))
    /\ pc' = "xml"
    /\ UNCHANGED <<env, parameters, walk_vars, scan_vars, log, output>>

\* one iteration of the inner loop of parse_xml_file
XmlParameterStep ==
    /\ pc = "xml"
    /\ xml_todo # <<>>
    /\ LET metadata == ParseParameter(Head(xml_todo).param, Head(xml_todo).group)
       IN  IF metadata.metadata # None
           THEN /\ parameters' = DictSet(parameters, metadata.metadata[1].name, metadata.metadata[1])
                /\ log' = Append(log, LogRecord("debug", "Parsed parameter from XML",
                                                metadata.metadata[1].name))
           ELSE /\ parameters' = parameters
                /\ log' = IF metadata.error
                          THEN Append(log, LogRecord("error", "Error parsing parameter",
                                                     Head(xml_todo).param.attrib["name"]))
                          ELSE log
    /\ xml_todo' = Tail(xml_todo)
    /\ UNCHANGED <<env, pc, walk_vars, scan_vars, calls, output>>

XmlDone ==
    /\ pc = "xml"
    /\ xml_todo = <<>>
    /\ pc' = "scan"
    /\ UNCHANGED <<env, parameters, xml_todo, walk_vars, scan_vars, log, calls, output>>


-----------------------------------------------------------------------------
(* parse_all, second stage: the walk over the source files *)

\* every path of the tree, as rglob yields it
Walk == {RepoPath \o f : f \in DOMAIN env.files}

\* the files the inner loop has still to yield for the current extension;
\* rglob fixes no order among them
Pending == RGlob(Walk, Extensions[ext_i]) \ yielded

FileAt(path) == env.files[RelativeTo(path, RepoPath)]

\* the test of line 72 fails: the file is not passed on
SkipBuildFile ==
    /\ pc = "scan" /\ ext_i <= Len(Extensions)
    /\ \E src_file \in Pending :
          /\ ~NotInBuild(src_file)
          /\ yielded' = yielded \cup {src_file}
    /\ UNCHANGED <<env, pc, parameters, xml_todo, ext_i, scan_vars, log, calls, output>>

\* parse_source_file: the file is read and its line scan starts
OpenSourceFile ==
    /\ pc = "scan" /\ ext_i <= Len(Extensions)
    /\ \E src_file \in Pending :
          /\ NotInBuild(src_file)
          /\ FileAt(src_file).readable
          /\ yielded' = yielded \cup {src_file}
          /\ calls' = Append(calls, Call("parse_source_file", src_file))
          /\ src_path' = src_file
          /\ lines' = FileAt(src_file).lines
    /\ line_number' = 0
    /\ in_comment' = FALSE
    /\ current_comment' = <<>>
    /\ pc' = "file"
    /\ UNCHANGED <<env, parameters, xml_todo, ext_i, log, output>>

\* parse_source_file: open() or read() raises, the file is logged and skipped
OpenSourceFileError ==
    /\ pc = "scan" /\ ext_i <= Len(Extensions)
    /\ \E src_file \in Pending :
          /\ NotInBuild(src_file)
          /\ ~FileAt(src_file).readable
          /\ yielded' = yielded \cup {src_file}
          /\ calls' = Append(calls, Call("parse_source_file", src_file))
          /\ log' = Append(log, LogRecord("error", "Error parsing source file", src_file))
    /\ UNCHANGED <<env, pc, parameters, xml_todo, ext_i, scan_vars, output>>

NextExtension ==
    /\ pc = "scan" /\ ext_i <= Len(Extensions)
    /\ Pending = {}
    /\ ext_i' = ext_i + 1
    /\ yielded' = {}
    /\ UNCHANGED <<env, pc, parameters, xml_todo, scan_vars, log, calls, output>>

-----------------------------------------------------------------------------
(* parse_source_file: the line scan *)

MoreLines == pc = "file" /\ line_number < Len(lines)

\* line = line.strip() of the line the loop is at
CurLine == Strip(lines[line_number + 1], Whitespace)

\* the line opens a comment block: the buffer is reset
CommentStart ==
    /\ MoreLines
    /\ re_comment_start(CurLine)
    /\ line_number' = line_number + 1
    /\ in_comment' = TRUE
    /\ current_comment' = <<>>
    /\ UNCHANGED <<env, pc, parameters, xml_todo, walk_vars, src_path, lines, log, calls, output>>

\* inside a comment, a line with the close marker
CommentEnd ==
    /\ MoreLines
    /\ ~re_comment_start(CurLine) /\ in_comment /\ HasCommentEnd(CurLine)
    /\ line_number' = line_number + 1
    /\ in_comment' = FALSE
    /\ current_comment' = Append(current_comment, CurLine)
    /\ UNCHANGED <<env, pc, parameters, xml_todo, walk_vars, src_path, lines, log, calls, output>>

\* inside a comment, any other line
CommentContent ==
    /\ MoreLines
    /\ ~re_comment_start(CurLine) /\ in_comment /\ ~HasCommentEnd(CurLine)
    /\ line_number' = line_number + 1
    /\ current_comment' = Append(current_comment, CurLine)
    /\ UNCHANGED <<env, pc, parameters, xml_todo, walk_vars, src_path, lines, in_comment, log, calls, output>>

\* the macro test as an "if" of its own, not an "elif" of the comment test
ParameterDefinitionInAnyState ==
    /\ MoreLines
    /\ re_param_define(CurLine) # None
    /\ LET param_match == re_param_define(CurLine)[1]
           result == ProcessParameterDefinition(param_match, current_comment,
                         RelativeTo(src_path, RepoPath), line_number + 1)
       IN  IF result.raised
           THEN /\ parameters' = parameters
                /\ log' = Append(log, LogRecord("error", "Error processing parameter",
                                                param_match.name))
           ELSE /\ parameters' = DictSet(parameters, param_match.name, result.param)
                /\ log' = Append(log, LogRecord("debug", "Parsed parameter from source",
                                                param_match.name))
    /\ line_number' = line_number + 1
    /\ current_comment' = <<>>
    /\ UNCHANGED <<env, pc, xml_todo, walk_vars, src_path, lines, in_comment, calls, output>>

\* the buffer cleared only when the construction succeeded
ParameterDefinitionKeepsBufferOnRaise ==
    /\ MoreLines
    /\ ~re_comment_start(CurLine) /\ ~in_comment /\ re_param_define(CurLine) # None
    /\ LET param_match == re_param_define(CurLine)[1]
           result == ProcessParameterDefinition(param_match, current_comment,
                         RelativeTo(src_path, RepoPath), line_number + 1)
       IN  IF result.raised
           THEN /\ parameters' = parameters
                /\ current_comment' = current_comment
                /\ log' = Append(log, LogRecord("error", "Error processing parameter",
                                                param_match.name))
           ELSE /\ parameters' = DictSet(parameters, param_match.name, result.param)
                /\ current_comment' = <<>>
                /\ log' = Append(log, LogRecord("debug", "Parsed parameter from source",
                                                param_match.name))
    /\ line_number' = line_number + 1
    /\ UNCHANGED <<env, pc, xml_todo, walk_vars, src_path, lines, in_comment, calls, output>>

\* no try block in _process_parameter_definition: the exception reaches the
\* handler of parse_source_file and ends the scan of the file
ParameterDefinitionRaiseEndsFile ==
    /\ MoreLines
    /\ ~re_comment_start(CurLine) /\ ~in_comment /\ re_param_define(CurLine) # None
    /\ LET param_match == re_param_define(CurLine)[1]
           result == ProcessParameterDefinition(param_match, current_comment,
                         RelativeTo(src_path, RepoPath), line_number + 1)
       IN  IF result.raised
           THEN /\ parameters' = parameters
                /\ pc' = "scan"
                /\ log' = Append(log, LogRecord("error", "Error parsing source file", src_path))
           ELSE /\ parameters' = DictSet(parameters, param_match.name, result.param)
                /\ pc' = pc
                /\ log' = Append(log, LogRecord("debug", "Parsed parameter from source",
                                                param_match.name))
    /\ line_number' = line_number + 1
    /\ current_comment' = <<>>
    /\ UNCHANGED <<env, xml_todo, walk_vars, src_path, lines, in_comment, calls, output>>

\* the store as setdefault: an entry already under the name is kept
ParameterDefinitionKeepsExisting ==
    /\ MoreLines
    /\ ~re_comment_start(CurLine) /\ ~in_comment /\ re_param_define(CurLine) # None
    /\ LET param_match == re_param_define(CurLine)[1]
           result == ProcessParameterDefinition(param_match, current_comment,
                         RelativeTo(src_path, RepoPath), line_number + 1)
       IN  IF result.raised
           THEN /\ parameters' = parameters
                /\ log' = Append(log, LogRecord("error", "Error processing parameter",
                                                param_match.name))
           ELSE /\ parameters' = IF param_match.name \in DOMAIN parameters THEN parameters
                                 ELSE DictSet(parameters, param_match.name, result.param)
                /\ log' = Append(log, LogRecord("debug", "Parsed parameter from source",
                                                param_match.name))
    /\ line_number' = line_number + 1
    /\ current_comment' = <<>>
    /\ UNCHANGED <<env, pc, xml_todo, walk_vars, src_path, lines, in_comment, calls, output>>

\* outside a comment, a line re_param_define matches:
\* _process_parameter_definition, then the buffer is cleared
ParameterDefinition ==
    /\ MoreLines
    /\ ~re_comment_start(CurLine) /\ ~in_comment /\ re_param_define(CurLine) # None
    /\ LET param_match == re_param_define(CurLine)[1]
           result == ProcessParameterDefinition(param_match, current_comment,
                         RelativeTo(src_path, RepoPath), line_number + 1)
       IN  IF result.raised
           THEN /\ parameters' = parameters
                /\ log' = Append(log, LogRecord("error", "Error processing parameter",
                                                param_match.name))
           ELSE /\ parameters' = DictSet(parameters, param_match.name, result.param)
                /\ log' = Append(log, LogRecord("debug", "Parsed parameter from source",
                                                param_match.name))
    /\ line_number' = line_number + 1
    /\ current_comment' = <<>>
    /\ UNCHANGED <<env, pc, xml_todo, walk_vars, src_path, lines, in_comment, calls, output>>

\* outside a comment, any other line
OtherLine ==
    /\ MoreLines
    /\ ~re_comment_start(CurLine) /\ ~in_comment /\ re_param_define(CurLine) = None
    /\ line_number' = line_number + 1
    /\ UNCHANGED <<env, pc, parameters, xml_todo, walk_vars, src_path, lines, in_comment,
                   current_comment, log, calls, output>>

EndOfFile ==
    /\ pc = "file" /\ line_number = Len(lines)
    /\ pc' = "scan"
    /\ UNCHANGED <<env, parameters, xml_todo, walk_vars, scan_vars, log, calls, output>>

-----------------------------------------------------------------------------
(* parse_all, third stage: save_parameters *)

\* no try block around the write: the exception leaves parse_all
SaveParametersUncaught ==
    /\ pc = "scan" /\ ext_i > Len(Extensions)
    /\ calls' = Append(calls, Call("save_parameters", <<>>))
    /\ IF env.writable
       THEN /\ output' = Some(ParamsDict(parameters))
            /\ log' = Append(log, LogRecord("info", "Successfully saved", <<>>))
            /\ pc' = "done"
       ELSE /\ output' = output
            /\ log' = log
            /\ pc' = "raised"
    /\ UNCHANGED <<env, parameters, xml_todo, walk_vars, scan_vars>>

\* json.dump succeeds, or raises and is caught and logged
SaveParameters ==
    /\ pc = "scan" /\ ext_i > Len(Extensions)
    /\ calls' = Append(calls, Call("save_parameters", <<>>))
    /\ IF env.writable
       THEN /\ output' = Some(ParamsDict(parameters))
            /\ log' = Append(log, LogRecord("info", "Successfully saved", <<>>))
       ELSE /\ output' = output
            /\ log' = Append(log, LogRecord("error", "Error saving parameters", <<>>))
    /\ pc' = "done"
    /\ UNCHANGED <<env, parameters, xml_todo, walk_vars, scan_vars>>

-----------------------------------------------------------------------------

Next ==
    \/ XmlMissing \/ XmlParseError \/ XmlParsed \/ XmlParameterStep \/ XmlDone
    \/ SkipBuildFile \/ OpenSourceFile \/ OpenSourceFileError \/ NextExtension
    \/ CommentStart \/ CommentEnd \/ CommentContent \/ ParameterDefinition
    \/ OtherLine \/ EndOfFile
    \/ SaveParameters

Spec == Init /\ [][Next]_vars

\* parse_all is one sequential thread: a step that can be taken is taken
FairSpec == InitPipeline /\ [][Next]_vars /\ WF_vars(Next)


-----------------------------------------------------------------------------
(* Vocabulary of the properties *)

Range(f) == {f[x] : x \in DOMAIN f}

\* the source files parse_source_file was called on so far
Scanned == {c.arg : c \in {d \in Range(calls) : d.fn = "parse_source_file"}}

\* a line step of the scan is about to read a line
LineStep == MoreLines /\ line_number' = line_number + 1

\* the step is the one the outside-comment branch takes on a macro match
MacroMatched ==
    /\ LineStep
    /\ ~re_comment_start(CurLine) /\ ~in_comment /\ re_param_define(CurLine) # None

MacroName == re_param_define(CurLine)[1].name

Logged(level, msg, about) == \E i \in 1..Len(log) : log[i] = LogRecord(level, msg, about)

-----------------------------------------------------------------------------
(* C7 *)

\* C7: in every reachable state every key of the parameters mapping is a
\* non-empty string and equals the name field of the entry stored under it;
\* an XML element whose name attribute is absent or empty inserts nothing
\* (after it is processed the mapping is what it was).
C7_KeysAreNames ==
    /\ \A k \in DOMAIN parameters : k # "" /\ parameters[k].name = k
    /\ \A k \in DOMAIN parameters :
          \/ Logged("debug", "Parsed parameter from XML", k)
          \/ Logged("debug", "Parsed parameter from source", k)

\* the elements of the document that carry no usable name
Nameless(elem) == "name" \notin DOMAIN elem.attrib \/ elem.attrib["name"] = ""

\* C7 witness: the XML stage has processed an element without a name
\* attribute and one with an empty name, and entries were stored from XML
\* and from source
C7_Witness ==
    /\ pc = "done"
    /\ env.xml.exists /\ env.xml.wellformed
    /\ \E g \in 1..Len(env.xml.root.kids) :
          \E p \in 1..Len(env.xml.root.kids[g].kids) :
             /\ "name" \in DOMAIN env.xml.root.kids[g].kids[p].attrib
             /\ env.xml.root.kids[g].kids[p].attrib["name"] = ""
    /\ DOMAIN parameters = {"A", "B"}
    /\ parameters["A"].source_file # None
    /\ parameters["B"].source_file = None

-----------------------------------------------------------------------------
(* C4 *)

HasSourceExtension(path) ==
    \E i \in 1..Len(Extensions) : path[Len(path)][Len(path[Len(path)])] = Extensions[i]

HasBuildSegment(path) == \E i \in 1..Len(path) : path[i] = <<"build">>

\* C4: during parse_all a file under the repository root is passed to
\* parse_source_file if and only if its extension is one of .c, .cpp, .h,
\* .hpp and its path has no segment named build.
C4_ScannedIffSourceOutsideBuild ==
    pc = "done" =>
        \A f \in Walk : f \in Scanned <=> (HasSourceExtension(f) /\ ~HasBuildSegment(f))

-----------------------------------------------------------------------------
(* C2 *)

\* what the claim takes each optional child to give
ChildFloat(elem, tag) ==
    IF Find(elem, tag) = None THEN None ELSE Some(FloatLiterals[Find(elem, tag)[1].text[1]])

ChildInt(elem, tag) ==
    IF Find(elem, tag) = None THEN None ELSE Some(IntLiterals[Find(elem, tag)[1].text[1]])

ChildText(elem, tag) == IF Find(elem, tag) = None THEN None ELSE Find(elem, tag)[1].text

\* a valid element: a name, numeric children that hold literals, values
\* that carry a code
ValidParameterElement(elem) ==
    /\ ~Nameless(elem)
    /\ \A t \in {"min", "max"} :
          Find(elem, t) # None =>
              Find(elem, t)[1].text # None /\ Find(elem, t)[1].text[1] \in DOMAIN FloatLiterals
    /\ Find(elem, "decimal") # None =>
          /\ Find(elem, "decimal")[1].text # None
          /\ Find(elem, "decimal")[1].text[1] \in DOMAIN IntLiterals
    /\ Find(elem, "values") # None =>
          \A v \in 1..Len(FindAll(Find(elem, "values")[1], "value")) :
              "code" \in DOMAIN FindAll(Find(elem, "values")[1], "value")[v].attrib

\* C2: for any valid XML parameter element with a name attribute, the entry
\* _parse_parameter produces reflects the attributes and children present;
\* min_val, max_val, unit and decimal equal the parsed content of the min,
\* max, unit and decimal children whenever those are present and are null
\* exactly when the child is absent.
C2_XmlEntryLossless ==
    [][(pc = "xml" /\ xml_todo # <<>> /\ ValidParameterElement(Head(xml_todo).param)) =>
          LET elem == Head(xml_todo).param
              name == elem.attrib["name"]
          IN  /\ name \in DOMAIN parameters'
              /\ parameters'[name].type = DictGet(elem.attrib, "type", "")
              /\ parameters'[name].default = DictGet(elem.attrib, "default", "")
              /\ parameters'[name].group = Head(xml_todo).group
              /\ parameters'[name].min_val = ChildFloat(elem, "min")
              /\ parameters'[name].max_val = ChildFloat(elem, "max")
              /\ parameters'[name].unit = ChildText(elem, "unit")
              /\ parameters'[name].decimal = ChildInt(elem, "decimal")]_vars

-----------------------------------------------------------------------------
(* C9 *)

\* C9: whenever the scanner is inside a comment and reads a line containing
\* the close marker, that line is appended to the comment buffer and the
\* scanner is outside the comment after the line, also for a line that
\* contains both the open and the close marker.
C9_CloseLineLeavesComment ==
    [][(LineStep /\ in_comment /\ HasCommentEnd(CurLine)) =>
          (~in_comment' /\ current_comment' = Append(current_comment, CurLine))]_vars


-----------------------------------------------------------------------------
(* C8 *)

\* the line is handled by the comment branches: it opens a comment, or it
\* is read inside one
CommentHandled == re_comment_start(CurLine) \/ in_comment

\* no line the scan has still to read carries the close marker
Unterminated ==
    /\ pc = "file" /\ in_comment
    /\ \A k \in (line_number + 1)..Len(lines) : ~HasCommentEnd(Strip(lines[k], Whitespace))

\* C8: in the line scan each line is handled by exactly one of comment
\* handling and macro detection: a macro line read inside a comment, or on
\* a line that also opens a comment, produces no entry (nothing is stored
\* and nothing is logged), and after an unterminated comment block the
\* scanner stays inside the comment, so no later macro line of the file
\* produces an entry.
C8_CommentOrMacroNeverBoth ==
    [][/\ (LineStep /\ CommentHandled) => (parameters' = parameters /\ log' = log)
       /\ (LineStep /\ ~CommentHandled) =>
              (in_comment' = in_comment /\ (log' = log => current_comment' = current_comment))
       /\ (LineStep /\ Unterminated) => (in_comment' /\ parameters' = parameters)]_vars

\* C8 witness: the scan has reached the end of a file in which a comment
\* was opened and never closed, macro lines came after the opening line,
\* and nothing was stored
C8_Witness ==
    /\ pc = "file" /\ line_number = Len(lines) /\ in_comment
    /\ \E o \in 1..Len(lines) :
          /\ re_comment_start(Strip(lines[o], Whitespace))
          /\ \E k \in (o + 1)..Len(lines) :
                /\ re_param_define(Strip(lines[k], Whitespace)) # None
                /\ ~re_comment_start(Strip(lines[k], Whitespace))
          /\ \A k \in (o + 1)..Len(lines) : ~HasCommentEnd(Strip(lines[k], Whitespace))
    /\ parameters = EmptyDict

-----------------------------------------------------------------------------
(* C10 *)

\* C10: within one file each comment block contributes to at most one
\* parameter: right after a macro line is matched outside a comment the
\* buffer is empty, whether the construction succeeded or raised; the
\* buffer stays empty until a line opens a comment; and a macro line
\* matched with an empty buffer gets empty short_desc and long_desc, group
\* "Uncategorized" and category "Standard".
C10_BlockUsedOnce ==
    [][/\ MacroMatched => current_comment' = <<>>
       /\ (LineStep /\ ~CommentHandled /\ current_comment = <<>>) => current_comment' = <<>>
       /\ (MacroMatched /\ current_comment = <<>>) =>
              /\ MacroName \in DOMAIN parameters'
              /\ parameters'[MacroName].short_desc = Some(<<>>)
              /\ parameters'[MacroName].long_desc = Some(<<>>)
              /\ parameters'[MacroName].group = <<"Uncategorized">>
              /\ parameters'[MacroName].category = <<"Standard">>
              /\ parameters'[MacroName].line_number = Some(line_number + 1)]_vars

\* C10 witness: one file, a comment block, then two macro lines in a row;
\* the first took the block (and raised on it), the second got the defaults
C10_Witness ==
    /\ pc = "file" /\ line_number = 4
    /\ re_comment_start(Strip(lines[1], Whitespace))
    /\ HasCommentEnd(Strip(lines[2], Whitespace))
    /\ re_param_define(Strip(lines[3], Whitespace)) = Some(ParamDefineGroups[MacroA])
    /\ re_param_define(Strip(lines[4], Whitespace)) = Some(ParamDefineGroups[MacroB])
    /\ Logged("error", "Error processing parameter", "A")
    /\ DOMAIN parameters = {"B"}
    /\ parameters["B"].short_desc = Some(<<>>)
    /\ parameters["B"].group = <<"Uncategorized">>
    /\ parameters["B"].line_number = Some(4)
    /\ current_comment = <<>>

-----------------------------------------------------------------------------
(* C5 *)

\* the construction on the matched macro line raises
ConstructionRaises ==
    ProcessParameterDefinition(re_param_define(CurLine)[1], current_comment,
                               RelativeTo(src_path, RepoPath), line_number + 1).raised

\* C5: when the construction of one source parameter raises, the
\* parameter is not inserted and the mapping is left exactly as it was, the
\* error is logged under the parameter's name, and the scan of the same
\* file goes on with the next line; every macro line matched later whose
\* construction does not raise stores its entry, whatever was logged
\* before it.
C5_RaiseDropsOneParameter ==
    [][/\ (MacroMatched /\ ConstructionRaises) =>
              /\ parameters' = parameters
              /\ log' = Append(log, LogRecord("error", "Error processing parameter", MacroName))
              /\ pc' = "file" /\ lines' = lines /\ src_path' = src_path
              /\ ~in_comment'
       /\ (MacroMatched /\ ~ConstructionRaises) =>
              /\ MacroName \in DOMAIN parameters'
              /\ parameters'[MacroName].source_file = Some(RelativeTo(src_path, RepoPath))
              /\ parameters'[MacroName].line_number = Some(line_number + 1)]_vars

\* C5 witness: in one file a construction raised on a non-numeric @min and
\* a later macro line of the same file stored its entry
C5_Witness ==
    /\ pc = "file"
    /\ Cardinality(Scanned) = 1
    /\ \E i \in 1..Len(log) : \E j \in (i + 1)..Len(log) :
          /\ log[i] = LogRecord("error", "Error processing parameter", "A")
          /\ log[j] = LogRecord("debug", "Parsed parameter from source", "B")
    /\ "B" \in DOMAIN parameters /\ "A" \notin DOMAIN parameters
    /\ parameters["B"].line_number = Some(line_number)

-----------------------------------------------------------------------------
(* C6 *)

StageOf(fn) ==
    IF fn = "parse_xml_file" THEN 1 ELSE IF fn = "parse_source_file" THEN 2 ELSE 3

\* the calls made so far are in stage order, with at most one XML call and
\* at most one save
CallsInOrder ==
    /\ \A i \in 1..Len(calls) : \A j \in (i + 1)..Len(calls) :
          StageOf(calls[i].fn) <= StageOf(calls[j].fn)
    /\ Cardinality({i \in 1..Len(calls) : calls[i].fn = "parse_xml_file"}) <= 1
    /\ Cardinality({i \in 1..Len(calls) : calls[i].fn = "save_parameters"}) <= 1

\* parse_all has returned after exactly one save_parameters, its last call
Returned ==
    /\ pc = "done"
    /\ Cardinality({i \in 1..Len(calls) : calls[i].fn = "save_parameters"}) = 1
    /\ calls[Len(calls)].fn = "save_parameters"
    /\ \A f \in RGlob(Walk, ".c") \cup RGlob(Walk, ".cpp") \cup RGlob(Walk, ".h")
                \cup RGlob(Walk, ".hpp") :
          NotInBuild(f) => f \in Scanned

\* C6: every run of parse_all goes through XML ingestion, then source
\* scanning, then serialization, and eventually returns after calling
\* save_parameters exactly once, after the last source file, whatever
\* fails on the way (XML parse, unreadable file, malformed parameter,
\* output write).
C6_AlwaysReachesSave == [](CallsInOrder /\ pc \in {"start", "xml", "scan", "file", "done"}) /\ <>[]Returned

\* C6 witness: a run that returned although the XML was malformed, a source
\* file unreadable, a parameter malformed and the output not writable
C6_Witness ==
    /\ Returned
    /\ Logged("error", "Error parsing", InjectedPath)
    /\ \E f \in Walk : Logged("error", "Error parsing source file", f)
    /\ Logged("error", "Error processing parameter", "A")
    /\ Logged("error", "Error saving parameters", <<>>)
    /\ output = None


-----------------------------------------------------------------------------
(* C1 *)

\* the names the injected document defines: the named parameter elements
\* of its groups
XmlNames ==
    IF env.xml.exists /\ env.xml.wellformed
    THEN {e.attrib["name"] :
            e \in {p \in UNION {Range(g.kids) : g \in {k \in Range(env.xml.root.kids) : k.tag = "group"}} :
                     p.tag = "parameter" /\ ~Nameless(p)}}
    ELSE {}

\* line k of a scanned file, as the scan sees it
FileLine(f, k) == Strip(FileAt(f).lines[k], Whitespace)

\* the names some primary-form macro line of a scanned source file defines
SourceNames ==
    {ParamDefineGroups[t].name :
        t \in {u \in DOMAIN ParamDefineGroups :
                 \E f \in Scanned : \E k \in 1..Len(FileAt(f).lines) :
                    \E i \in 1..Len(FileLine(f, k)) : FileLine(f, k)[i] = u}}

\* C1 as stated: after parse_all, for every name defined both in the
\* injected XML document and by a primary-form macro line of a scanned
\* source file, the mapping entry is the source-derived one
\* (source_file and line_number set, no values of the XML entry left).
C1_SourceOverridesXml ==
    pc = "done" =>
        \A n \in XmlNames \cap SourceNames :
            /\ n \in DOMAIN parameters
            /\ parameters[n].source_file # None
            /\ parameters[n].line_number # None
            /\ parameters[n].values = EmptyDict

\* some line of f before line i carries the tag with this value
TagLineBefore(f, i, tag, value) ==
    \E k \in 1..(i - 1) :
        /\ re_comment_tag(Strip(FileLine(f, k), CommentDecoration)) # None
        /\ re_comment_tag(Strip(FileLine(f, k), CommentDecoration))[1].tag = tag
        /\ re_comment_tag(Strip(FileLine(f, k), CommentDecoration))[1].value = value

\* every field of e comes from the macro line i of the scanned file f and
\* from the comment lines before it
SourceBacked(e, n, f, i) ==
    /\ f \in Scanned /\ i \in 1..Len(FileAt(f).lines)
    /\ e.source_file = Some(RelativeTo(f, RepoPath)) /\ e.line_number = Some(i)
    /\ re_param_define(FileLine(f, i)) # None
    /\ e.name = n /\ re_param_define(FileLine(f, i))[1].name = n
    /\ e.type = re_param_define(FileLine(f, i))[1].type
    /\ e.default = re_param_define(FileLine(f, i))[1].default
    /\ e.values = EmptyDict
    /\ e.volatile <=> TagLineBefore(f, i, "volatile", <<>>)
    /\ e.group = Uncategorized \/ TagLineBefore(f, i, "group", e.group)
    /\ e.category = Standard \/ TagLineBefore(f, i, "category", e.category)
    /\ e.unit = None \/ TagLineBefore(f, i, "unit", e.unit[1])
    /\ e.min_val = None \/ \E v \in DOMAIN FloatLiterals :
                               e.min_val = Some(FloatLiterals[v]) /\ TagLineBefore(f, i, "min", v)
    /\ e.max_val = None \/ \E v \in DOMAIN FloatLiterals :
                               e.max_val = Some(FloatLiterals[v]) /\ TagLineBefore(f, i, "max", v)
    /\ e.decimal = None \/ \E v \in DOMAIN IntLiterals :
                               e.decimal = Some(IntLiterals[v]) /\ TagLineBefore(f, i, "decimal", v)
    /\ e.short_desc # None /\ e.long_desc # None
    /\ e.short_desc = Some(<<>>) \/ \E k \in 1..(i - 1) :
                                       e.short_desc = Some(Strip(FileLine(f, k), CommentDecoration))

\* C1 as amended: at any time, for every name the injected XML document
\* defines and for which the source scan has constructed a parameter
\* (logged "Parsed parameter from source"), the mapping entry is a
\* source-derived entry in all of its fields: each field is the one a macro
\* line of a scanned file and the comment lines before it give, and
\* nothing of the XML entry is left.
C1_ConstructedSourceOverridesXml ==
    \A n \in XmlNames :
        Logged("debug", "Parsed parameter from source", n) =>
            /\ n \in DOMAIN parameters
            /\ \E f \in Scanned : \E i \in 1..Len(FileAt(f).lines) :
                  SourceBacked(parameters[n], n, f, i)

\* C1 witness: the XML stage stored A with group, volatile and values, a
\* source file then defined A, and parse_all ended with the source entry
C1_Witness ==
    /\ pc = "done"
    /\ env.xml.exists /\ env.xml.wellformed
    /\ env.xml.root.kids[1].kids[Len(env.xml.root.kids[1].kids)] = ParamFull
    /\ Logged("debug", "Parsed parameter from XML", "A")
    /\ Logged("debug", "Parsed parameter from source", "A")
    /\ "A" \in XmlNames \cap SourceNames
    /\ parameters["A"].source_file = Some(SrcA)
    /\ parameters["A"].values = EmptyDict
    /\ ~parameters["A"].volatile
    /\ parameters["A"].group = Uncategorized

-----------------------------------------------------------------------------
(* C3 *)

\* line k of the file being scanned, as the scan sees it
ScanLine(k) == Strip(lines[k], Whitespace)

\* lines o .. i-1 are a well-formed comment block right before line i: an
\* opening line, content lines, a closing line
WellFormedBlock(o, i) ==
    /\ 1 <= o /\ o < i - 1 /\ i <= Len(lines)
    /\ re_comment_start(ScanLine(o)) /\ ~HasCommentEnd(ScanLine(o))
    /\ \A k \in (o + 1)..(i - 1) : ~re_comment_start(ScanLine(k))
    /\ \A k \in (o + 1)..(i - 2) : ~HasCommentEnd(ScanLine(k))
    /\ HasCommentEnd(ScanLine(i - 1))

\* the comment lines after the opening line, without their decoration
BlockLine(k) == Strip(ScanLine(k), CommentDecoration)

IsTagLine(k) == re_comment_tag(BlockLine(k)) # None

\* the value of the last line of the block that carries the tag, if any
LastTagValue(o, i, tag) ==
    LET ks == {k \in (o + 1)..(i - 1) : IsTagLine(k) /\ re_comment_tag(BlockLine(k))[1].tag = tag}
    IN  IF ks = {} THEN None
        ELSE Some(re_comment_tag(BlockLine(CHOOSE k \in ks : \A j \in ks : j <= k))[1].value)

\* the first line of the block that is no tag line and has text
FirstTextLine(o, i) ==
    LET ks == {k \in (o + 1)..(i - 1) : ~IsTagLine(k) /\ BlockLine(k) # <<>>}
    IN  IF ks = {} THEN <<>> ELSE BlockLine(CHOOSE k \in ks : \A j \in ks : k <= j)

\* the entry e has the short description and the tag-derived fields of the
\* block, and the default in every field the block has no tag for
MatchesBlock(e, o, i) ==
    /\ e.short_desc = Some(FirstTextLine(o, i))
    /\ e.group = IF LastTagValue(o, i, "group") = None THEN <<"Uncategorized">>
                 ELSE LastTagValue(o, i, "group")[1]
    /\ e.category = IF LastTagValue(o, i, "category") = None THEN <<"Standard">>
                    ELSE LastTagValue(o, i, "category")[1]
    /\ e.unit = LastTagValue(o, i, "unit")
    /\ e.volatile = (LastTagValue(o, i, "volatile") # None)
    /\ e.min_val = IF LastTagValue(o, i, "min") = None THEN None
                   ELSE Some(FloatLiterals[LastTagValue(o, i, "min")[1]])
    /\ e.max_val = IF LastTagValue(o, i, "max") = None THEN None
                   ELSE Some(FloatLiterals[LastTagValue(o, i, "max")[1]])
    /\ e.decimal = IF LastTagValue(o, i, "decimal") = None THEN None
                   ELSE Some(IntLiterals[LastTagValue(o, i, "decimal")[1]])

\* the numeric tags of the block hold numbers
NumericTagsParse(o, i) ==
    /\ \A t \in {"min", "max"} :
          LastTagValue(o, i, t) # None => LastTagValue(o, i, t)[1] \in DOMAIN FloatLiterals
    /\ LastTagValue(o, i, "decimal") # None =>
          LastTagValue(o, i, "decimal")[1] \in DOMAIN IntLiterals

\* the scan reads a primary-form macro line that follows a well-formed block
MacroAfterBlock(o) ==
    /\ LineStep
    /\ WellFormedBlock(o, line_number + 1)
    /\ ~re_comment_start(CurLine) /\ re_param_define(CurLine) # None

\* C3 as stated: for a well-formed comment block immediately followed by a
\* primary-form macro line, parse_source_file produces an entry whose
\* short_desc is the first non-tag comment line with text and whose group,
\* min_val, max_val, unit, decimal, volatile and category match the @tag
\* lines of the block (last occurrence wins), untagged fields at their
\* defaults.
C3_BlockGivesEntry ==
    [][\A o \in 1..Len(lines) :
          MacroAfterBlock(o) =>
              /\ MacroName \in DOMAIN parameters'
              /\ parameters'[MacroName].line_number = Some(line_number + 1)
              /\ NumericTagsParse(o, line_number + 1)
              /\ MatchesBlock(parameters'[MacroName], o, line_number + 1)]_vars

\* C3 as amended: the same, for a block whose @min, @max and @decimal
\* values (the last occurrence of each) parse as numbers; for any other
\* block no entry is produced and the mapping is unchanged.
C3_ParsableBlockGivesEntry ==
    [][\A o \in 1..Len(lines) :
          MacroAfterBlock(o) =>
              IF NumericTagsParse(o, line_number + 1)
              THEN /\ MacroName \in DOMAIN parameters'
                   /\ parameters'[MacroName].line_number = Some(line_number + 1)
                   /\ MatchesBlock(parameters'[MacroName], o, line_number + 1)
              ELSE parameters' = parameters]_vars

\* C3 witness: a block with a repeated @min was followed by a macro line,
\* and the entry holds the last value
C3_Witness ==
    /\ pc = "file" /\ line_number = 5 /\ Len(lines) = 5
    /\ WellFormedBlock(1, 5)
    /\ LastTagValue(1, 5, "min") = Some(<<"10">>)
    /\ \E k \in 2..3 : IsTagLine(k) /\ re_comment_tag(BlockLine(k))[1] = [tag |-> "min", value |-> <<"0">>]
    /\ "A" \in DOMAIN parameters
    /\ parameters["A"].min_val = Some(100)
    /\ parameters["A"].line_number = Some(5)


====
